---- MODULE Spec2Model ----
(***************************************************************************)
(* Model of the quadrupedal go-to-goal task (GoalTask), the environment    *)
(* sensors (LastActionSensor, GoalPosSensor, ForceSensor) and the set-up   *)
(* part of the PPO experiment driver (experiment).                         *)
(*                                                                         *)
(* Numbers are fixed point.  Lengths are whole millimetres, times whole    *)
(* milliseconds, speeds mm/s, quaternion components hundredths, and        *)
(* rewards millionths (1.0 == 1000000), so that a squared speed in         *)
(* (mm/s)^2 is already a reward in millionths.  A Euclidean norm is        *)
(* rounded down to a whole unit (ISqrt); every comparison of a norm with a *)
(* threshold is made on the squares and is exact.                          *)
(***************************************************************************)
EXTENDS Integers, Sequences, FiniteSets, TLC

VARIABLES
    \* ---- GoalTask object
    cfg,                \* constructor arguments kept by __init__
    task_env,           \* self._env: NoEnv before reset, else the bound env
    last_base_pos,      \* self.last_base_pos  (<<>> while the attribute is unset)
    current_base_pos,   \* self.current_base_pos (<<>> while unset)
    \* ---- the environment the task is used with
    base_pos,           \* env.robot.GetBasePosition()
    base_orn,           \* env.robot.GetBaseOrientation()
    contacts,           \* getContactPoints(bodyA=quadruped): <<bodyB, linkA>>
    torques,            \* env.robot.GetMotorTorques()
    has_terrain,        \* "terrain" in env._world_dict
    subgoals_achieved,  \* env.world_dict['subgoals_achieved']
    \* ---- what the last call did
    last_op,            \* name of the last operation
    raised,             \* exception it raised, NoError if it returned
    ret_done,           \* value returned by the last done()
    ret_reward,         \* value returned by the last reward()
    contrib,            \* per subgoal: its share of the last reward()
    bonus_count,        \* per subgoal: bonuses paid since the episode began
    \* ---- forward-velocity probe (the reward law as a function of speed)
    probe,
    \* ---- sensors and the environments they are bound to
    sensor_env,         \* per sensor: self._env (NoEnv is None)
    sensor_robot,       \* per sensor: self._robot (NoRobot is None)
    senv,               \* per environment: what the sensors read
    sens_op, sens_raised, sens_obs,
    \* ---- experiment driver
    pc,                 \* position in experiment()
    args,               \* command-line arguments
    params,             \* top-level dict loaded by get_params
    eval_params,        \* params.copy()
    heap,               \* the nested dict objects both refer to
    train_env,          \* env
    eval_env,           \* eval_env
    normalizer,         \* per normalizer object: observations absorbed
    train_updates,      \* observations the training env has fed its normalizer
    logger_params,      \* the settings the Logger received
    replay_buffer       \* OnPolicyReplayBuffer

task_vars == <<cfg, task_env, last_base_pos, current_base_pos>>
env_vars == <<base_pos, base_orn, contacts, torques, has_terrain, subgoals_achieved>>
call_vars == <<last_op, raised, ret_done, ret_reward, contrib, bonus_count>>
sensor_vars == <<sensor_env, sensor_robot, senv, sens_op, sens_raised, sens_obs>>
exp_vars == <<pc, args, params, eval_params, heap, train_env, eval_env, normalizer,
              train_updates, logger_params, replay_buffer>>
vars == <<task_vars, env_vars, call_vars, probe, sensor_vars, exp_vars>>

----------------------------------------------------------------------------
\* Arithmetic helpers

Min(a, b) == IF a <= b THEN a ELSE b
Max(a, b) == IF a >= b THEN a ELSE b

RECURSIVE SqrtIter(_, _, _)
SqrtIter(n, lo, hi) ==
    IF lo >= hi THEN lo
    ELSE LET mid == (lo + hi + 1) \div 2
         IN  IF mid * mid <= n THEN SqrtIter(n, mid, hi)
                               ELSE SqrtIter(n, lo, mid - 1)

\* floor of the square root (np.linalg.norm's sqrt, rounded down to a unit)
ISqrt(n) == SqrtIter(n, 0, Min(n, 46340))

RECURSIVE SumSq(_)
SumSq(v) == IF v = <<>> THEN 0 ELSE Head(v) * Head(v) + SumSq(Tail(v))

\* np.linalg.norm(v), rounded down
Norm(v) == ISqrt(SumSq(v))

\* a - b on vectors of equal length
VSub(a, b) == [i \in 1..Len(a) |-> a[i] - b[i]]

----------------------------------------------------------------------------
\* GoalTask: constants of __init__ and of the reward and termination code

time_step_ms == 10
num_action_repeat == 10
height_fall_coeff == 300
alive_reward == 100000
goal_coeff == 10
energy_weight_milli == -5
move_forward_coeff == 1
init_orientation == <<0, 0, 0, 100>>
TiltLimit == 6000
ZUpper == 800
ContactSpeedLimit == 50
SubgoalRadius == 1000
SubgoalBonus == 5000000

\* target_vel=None is the empty tuple, target_vel=v the tuple <<v>>
None == <<>>
Some(v) == <<v>>

NoError == "none"
NoEnv == "None"
TheEnv == "env"

\* the constructor defaults
DefaultConfig ==
    [z_constrain |-> FALSE, check_contact |-> FALSE, subgoal |-> FALSE,
     target_vel |-> None, z_penalty |-> 0, orientation_penalty |-> 0,
     fall_reward |-> 0]

\* the configurations the reward is explored with: the defaults, and the
\* subgoal bonus on and off, with and without a target velocity
Configs ==
    {DefaultConfig} \cup
    [z_constrain : {FALSE}, check_contact : {TRUE}, subgoal : BOOLEAN,
     target_vel : {None, Some(1000)}, z_penalty : {1},
     orientation_penalty : {2}, fall_reward : {-1000000}]

\* the configurations termination is explored with: every setting of the
\* two switches done() reads
DoneConfigs ==
    [z_constrain : BOOLEAN, check_contact : BOOLEAN, subgoal : {FALSE},
     target_vel : {Some(1000)}, z_penalty : {1},
     orientation_penalty : {2}, fall_reward : {-1000000}]

----------------------------------------------------------------------------
\* The environment the task reads: world dictionary and simulator values

GroundId == "ground"
TerrainId == "terrain"
ObstacleId == "obstacle"
foot_link_ids == {2, 5, 8, 11}

goal_pos == <<3000, 0, 400>>
subgoals == << <<1200, 0, 400>>, <<2400, 0, 400>> >>
NumSubgoals == Len(subgoals)

\* where the simulator may put the base; every distance to the goal is a
\* whole number of millimetres
StartPos == <<0, 0, 400>>
Positions ==
    { StartPos,
      <<3, 0, 400>>,        \* a slow crawl away from the start
      <<1000, 0, 400>>,     \* inside the radius of subgoal 1 only
      <<1800, 0, 400>>,     \* inside the radius of both subgoals
      <<504, 0, 200>>,      \* fallen, inside the radius of subgoal 1
      <<1800, 0, 900>> }    \* above the height limit of z_constrain

Upright == <<0, 0, 0, 100>>
Orientations ==
    { Upright,
      <<28, 0, 0, 96>>,     \* a small roll: rot_mat[-1] = 0.8432
      <<60, 0, 0, 80>> }    \* a large roll: rot_mat[-1] = 0.28

ContactLists ==
    { <<>>,
      << <<GroundId, 5>> >>,                          \* a foot on the ground
      << <<GroundId, 5>>, <<GroundId, -1>> >>,  \* the trunk on the ground
      << <<TerrainId, 8>> >>,                         \* a foot on the terrain
      << <<ObstacleId, 2>> >> }                       \* a foot against an obstacle

TorqueVectors == { <<0, 0, 0>>, <<1, 2, 0>> }

----------------------------------------------------------------------------
\* GoalTask.done

dt_ms == time_step_ms * num_action_repeat

\* a position difference d (mm) over one control step, in mm/s
PerSecond(d) == (d * 1000) \div dt_ms

\* rot_mat[-1] < 0.6, where getMatrixFromQuaternion(q)[-1] is
\* 1 - 2(x^2+y^2)/|q|^2: both sides are multiplied by |q|^2 (and by ten
\* thousand), so nothing is rounded
RotFall(orn) ==
    10000 * SumSq(orn) - 20000 * (orn[1] * orn[1] + orn[2] * orn[2])
        < TiltLimit * SumSq(orn)

\* HeightFall without the upper limit of z_constrain
HeightFallNoCeiling(c, pos) == pos[3] < height_fall_coeff

HeightFall(c, pos) ==
    IF c.z_constrain
    THEN pos[3] < height_fall_coeff \/ pos[3] > ZUpper
    ELSE pos[3] < height_fall_coeff

\* first loop: a link that is no foot touches the ground or the terrain
GroundContact(cs, terrain) ==
    \E i \in 1..Len(cs) :
        /\ \/ cs[i][1] = GroundId
           \/ (terrain /\ cs[i][1] = TerrainId)
        /\ cs[i][2] \notin foot_link_ids

\* second loop: any contact with a body that is not the ground
ForeignContact(cs) == \E i \in 1..Len(cs) : cs[i][1] # GroundId

\* speed = (current - last) / (time_step * num_action_repeat), a 3-vector
SpeedVec(last, cur) == [i \in 1..3 |-> PerSecond(cur[i] - last[i])]

\* np.linalg.norm(speed) <= 0.05
SlowEnough(last, cur) ==
    SumSq(SpeedVec(last, cur)) <= ContactSpeedLimit * ContactSpeedLimit

ContactDone(c, cs, terrain, last, cur) ==
    IF c.check_contact
    THEN (GroundContact(cs, terrain) \/ ForeignContact(cs)) /\ SlowEnough(last, cur)
    ELSE FALSE

Done(c, pos, orn, cs, terrain, last, cur) ==
    HeightFall(c, pos) \/ RotFall(orn) \/ ContactDone(c, cs, terrain, last, cur)

----------------------------------------------------------------------------
\* GoalTask.reward and its terms

\* ClipMax that does not clip
ClipNothing(x, hi) == x

\* np.clip(x, a_min=None, a_max=hi)
ClipMax(x, hi) == Min(x, hi)

\* lines 187-190, as a function of the horizontal and vertical speed
ForwardReward(xy_speed, z_speed, tv, z_penalty) ==
    LET clipped == ClipMax(xy_speed, tv)
        along_reward == tv * tv - (clipped - tv) * (clipped - tv)
    IN  along_reward - z_penalty * (z_speed * z_speed)

CalcRewardRootVelocity(c, last, cur) ==
    LET x_speed == PerSecond(cur[1] - last[1])
        y_speed == PerSecond(cur[2] - last[2])
        z_speed == PerSecond(cur[3] - last[3])
        xy_speed == Norm(<<x_speed, y_speed>>)
    IN  ForwardReward(xy_speed, z_speed, c.target_vel[1], c.z_penalty)

\* (last_dist - current_dist) / dt, in mm/s
CalcRewardGoalDist(last, cur) ==
    PerSecond(Norm(VSub(goal_pos, last)) - Norm(VSub(goal_pos, cur)))

\* sum((init_orientation - rot_quat)^2), in ten-thousandths
CalcRewardRotation(orn) == SumSq(VSub(init_orientation, orn))

Within(cur, i) ==
    SumSq(VSub(cur, subgoals[i])) < SubgoalRadius * SubgoalRadius

\* SubgoalShare that does not look at the achieved flag
SubgoalShareAlways(cur, achieved, i) ==
    IF Within(cur, i) THEN SubgoalBonus ELSE 0

\* what _calc_reward_subgoal adds for subgoal i
SubgoalShare(cur, achieved, i) ==
    IF Within(cur, i) /\ ~achieved[i] THEN SubgoalBonus ELSE 0

\* the flags _calc_reward_subgoal leaves behind
SubgoalMark(cur, achieved) ==
    [i \in 1..NumSubgoals |-> achieved[i] \/ Within(cur, i)]

RECURSIVE SumSeq(_)
SumSeq(s) == IF s = <<>> THEN 0 ELSE Head(s) + SumSeq(Tail(s))

CalcRewardSubgoal(cur, achieved) ==
    SumSeq([i \in 1..NumSubgoals |-> SubgoalShare(cur, achieved, i)])

\* np.dot(torques, torques) * time_step, in millionths
EnergyReward(t) == SumSq(t) * time_step_ms * 1000

\* the value reward() returns when nothing raises
Reward(c, pos, orn, cs, terrain, t, last, cur, achieved) ==
    LET energy_reward == EnergyReward(t)
        move_forward_reward == CalcRewardRootVelocity(c, last, cur)
        orientation_reward == CalcRewardRotation(orn) * 100
        goal_reward == CalcRewardGoalDist(last, cur) * 1000
        subgoal_reward ==
            IF c.subgoal THEN CalcRewardSubgoal(cur, achieved) ELSE 0
        reward == goal_reward * goal_coeff
                  + move_forward_reward * move_forward_coeff
                  + (energy_reward * energy_weight_milli) \div 1000
                  - c.orientation_penalty * orientation_reward
                  + alive_reward + subgoal_reward
    IN  IF Done(c, pos, orn, cs, terrain, last, cur)
        THEN reward + c.fall_reward
        ELSE reward

----------------------------------------------------------------------------
\* GoalTask operations

MaxBonus == 2

NoShares == [i \in 1..NumSubgoals |-> 0]
NoneAchieved == [i \in 1..NumSubgoals |-> FALSE]

\* the call returned nothing, or raised: no value is left behind
Outcome(op, exc) ==
    /\ last_op' = op
    /\ raised' = exc
    /\ ret_done' = FALSE
    /\ ret_reward' = 0
    /\ contrib' = NoShares

other_vars == <<probe, sensor_vars, exp_vars>>

reset ==
    /\ task_env' = TheEnv
    /\ last_base_pos' = base_pos
    /\ current_base_pos' = base_pos
    /\ Outcome("reset", NoError)
    /\ UNCHANGED <<cfg, env_vars, bonus_count, other_vars>>

\* update that reads the new position into both fields
update_without_shift ==
    /\ IF current_base_pos = <<>>
       THEN /\ Outcome("update", "AttributeError")
            /\ UNCHANGED <<last_base_pos, current_base_pos>>
       ELSE /\ last_base_pos' = base_pos
            /\ current_base_pos' = base_pos
            /\ Outcome("update", NoError)
    /\ UNCHANGED <<cfg, task_env, env_vars, bonus_count, other_vars>>

update ==
    /\ IF current_base_pos = <<>>
       THEN /\ Outcome("update", "AttributeError")
            /\ UNCHANGED <<last_base_pos, current_base_pos>>
       ELSE /\ last_base_pos' = current_base_pos
            /\ current_base_pos' = base_pos
            /\ Outcome("update", NoError)
    /\ UNCHANGED <<cfg, task_env, env_vars, bonus_count, other_vars>>

done ==
    /\ IF task_env = NoEnv
       THEN Outcome("done", "AttributeError")
       ELSE /\ last_op' = "done"
            /\ raised' = NoError
            /\ ret_done' = Done(cfg, base_pos, base_orn, contacts, has_terrain,
                                last_base_pos, current_base_pos)
            /\ ret_reward' = 0
            /\ contrib' = NoShares
    /\ UNCHANGED <<task_vars, env_vars, bonus_count, other_vars>>

reward ==
    /\ IF task_env = NoEnv
       THEN /\ Outcome("reward", "AttributeError")
            /\ UNCHANGED <<subgoals_achieved, bonus_count>>
       ELSE IF cfg.target_vel = None
       THEN \* np.clip with no bound, or None ** 2, by numpy version
            /\ \E exc \in {"ValueError", "TypeError"} : Outcome("reward", exc)
            /\ UNCHANGED <<subgoals_achieved, bonus_count>>
       ELSE /\ last_op' = "reward"
            /\ raised' = NoError
            /\ ret_done' = FALSE
            /\ ret_reward' = Reward(cfg, base_pos, base_orn, contacts, has_terrain,
                                    torques, last_base_pos, current_base_pos,
                                    subgoals_achieved)
            /\ contrib' = IF cfg.subgoal
                          THEN [i \in 1..NumSubgoals |->
                                   SubgoalShare(current_base_pos, subgoals_achieved, i)]
                          ELSE NoShares
            /\ subgoals_achieved' = IF cfg.subgoal
                                    THEN SubgoalMark(current_base_pos, subgoals_achieved)
                                    ELSE subgoals_achieved
            /\ bonus_count' = [i \in 1..NumSubgoals |->
                                 IF contrib'[i] > 0
                                 THEN Min(bonus_count[i] + 1, MaxBonus)
                                 ELSE bonus_count[i]]
    /\ UNCHANGED <<task_vars, base_pos, base_orn, contacts, torques, has_terrain,
                   other_vars>>

\* ---- the simulator, between two calls of the task
MoveBase ==
    /\ \E p \in Positions : base_pos' = p
    /\ Outcome("sim", NoError)
    /\ UNCHANGED <<task_vars, base_orn, contacts, torques, has_terrain,
                   subgoals_achieved, bonus_count, other_vars>>

TurnBase ==
    /\ \E q \in Orientations : base_orn' = q
    /\ Outcome("sim", NoError)
    /\ UNCHANGED <<task_vars, base_pos, contacts, torques, has_terrain,
                   subgoals_achieved, bonus_count, other_vars>>

Touch ==
    /\ \E cs \in ContactLists : contacts' = cs
    /\ Outcome("sim", NoError)
    /\ UNCHANGED <<task_vars, base_pos, base_orn, torques, has_terrain,
                   subgoals_achieved, bonus_count, other_vars>>

Actuate ==
    /\ \E t \in TorqueVectors : torques' = t
    /\ Outcome("sim", NoError)
    /\ UNCHANGED <<task_vars, base_pos, base_orn, contacts, has_terrain,
                   subgoals_achieved, bonus_count, other_vars>>

\* a new episode: the environment rebuilds its world and resets the task
EpisodeStart ==
    /\ base_pos' = StartPos
    /\ base_orn' = Upright
    /\ contacts' = <<>>
    /\ subgoals_achieved' = NoneAchieved
    /\ bonus_count' = NoShares
    /\ task_env' = TheEnv
    /\ last_base_pos' = StartPos
    /\ current_base_pos' = StartPos
    /\ Outcome("episode", NoError)
    /\ UNCHANGED <<cfg, torques, has_terrain, other_vars>>

----------------------------------------------------------------------------
\* The forward-velocity law, probed as a function of the speed

SpeedStep == 250
MaxSpeedSteps == 8
ProbeSpeeds == {k * SpeedStep : k \in 0..MaxSpeedSteps}
ProbeTargets == {500, 1000, 1500}
ProbeZSpeeds == {0, 100}
ProbeZPenalties == {0, 1}

\* the reward at horizontal speed s, and at s = target_vel, for one setting
ProbeAt(tv, zs, zp, s) ==
    [target_vel |-> tv, z_speed |-> zs, z_penalty |-> zp, xy_speed |-> s,
     reward |-> ForwardReward(s, zs, tv, zp),
     at_target |-> ForwardReward(tv, zs, tv, zp)]

ProbeIdle == probe = ProbeAt(1000, 0, 0, 0)

ProbeInit ==
    \E tv \in ProbeTargets, zs \in ProbeZSpeeds, zp \in ProbeZPenalties :
        probe = ProbeAt(tv, zs, zp, 0)

\* the robot moves at another horizontal speed; everything else is held
ProbeSpeed ==
    /\ \E s \in ProbeSpeeds :
           probe' = ProbeAt(probe.target_vel, probe.z_speed, probe.z_penalty, s)
    /\ UNCHANGED <<task_vars, env_vars, call_vars, sensor_vars, exp_vars>>

----------------------------------------------------------------------------
\* Sensors

Sensors == {"LastAction", "GoalPos", "Force"}
SensorEnvs == {"env1", "env2"}
NoRobot == "None"
NoObs == <<>>

LastActions == { <<0, 0>>, <<1, -1>> }
RobotPositions == { StartPos, <<1000, 0, 400>> }
\* jointReactionForces of the four feet (getJointStates(...)[k][2])
FootForces == { << <<0, 0, 0, 0, 0, 0>>, <<0, 0, 0, 0, 0, 0>>,
                   <<0, 0, 0, 0, 0, 0>>, <<0, 0, 0, 0, 0, 0>> >>,
                << <<0, 0, 9, 0, 0, 0>>, <<0, 0, 7, 0, 0, 0>>,
                   <<1, 0, 8, 0, 0, 0>>, <<0, 2, 6, 0, 0, 0>> >> }

\* the goal each environment holds in its world dictionary
SensorGoal(e) == IF e = "env1" THEN goal_pos ELSE <<0 - 3000, 0, 400>>
\* the robot each environment owns
RobotOf(e) == IF e = "env1" THEN "robot1" ELSE "robot2"

EnvReading(e) ==
    [last_action : LastActions, base_pos : RobotPositions,
     goal_pos : {SensorGoal(e)}, forces : FootForces]

\* what each sensor's _get_observation computes once every binding it
\* dereferences is set
LastActionObservation(env) == env.last_action

GoalPosObservation(env) == env.base_pos \o env.goal_pos

ForceObservation(env) ==
    env.forces[1] \o env.forces[2] \o env.forces[3] \o env.forces[4]

Observation(s, env) ==
    CASE s = "LastAction" -> LastActionObservation(env)
      [] s = "GoalPos" -> GoalPosObservation(env)
      [] s = "Force" -> ForceObservation(env)

\* the bindings _get_observation dereferences: self._env for all three, and
\* for ForceSensor also self._robot (self._robot.quadruped)
Unbound(s) ==
    \/ sensor_env[s] = NoEnv
    \/ (s = "Force" /\ sensor_robot[s] = NoRobot)

on_reset ==
    /\ \E s \in Sensors, e \in SensorEnvs :
           /\ sensor_env' = [sensor_env EXCEPT ![s] = e]
           /\ sens_op' = <<"on_reset", s>>
    /\ sens_raised' = NoError
    /\ sens_obs' = NoObs
    /\ UNCHANGED <<sensor_robot, senv, task_vars, env_vars, call_vars, probe, exp_vars>>

get_observation ==
    /\ \E s \in Sensors :
           /\ sens_op' = <<"_get_observation", s>>
           /\ IF Unbound(s)
              THEN /\ sens_raised' = "AttributeError"
                   /\ sens_obs' = NoObs
              ELSE /\ sens_raised' = NoError
                   /\ sens_obs' = Observation(s, senv[sensor_env[s]])
    /\ UNCHANGED <<sensor_env, sensor_robot, senv, task_vars, env_vars, call_vars,
                   probe, exp_vars>>

\* Sensor.set_robot of the base class
set_robot ==
    /\ \E e \in SensorEnvs :
           sensor_robot' = [sensor_robot EXCEPT !["Force"] = RobotOf(e)]
    /\ sens_op' = <<"set_robot", "Force">>
    /\ sens_raised' = NoError
    /\ sens_obs' = NoObs
    /\ UNCHANGED <<sensor_env, senv, task_vars, env_vars, call_vars, probe, exp_vars>>

\* an environment steps: what the sensors would read changes
EnvStep ==
    /\ \E e \in SensorEnvs :
         \E r \in EnvReading(e) :
           /\ senv' = [senv EXCEPT ![e] = r]
           /\ sens_op' = <<"step", e>>
    /\ sens_raised' = NoError
    /\ sens_obs' = NoObs
    /\ UNCHANGED <<sensor_env, sensor_robot, task_vars, env_vars, call_vars, probe,
                   exp_vars>>

SensorFirstReading(e) ==
    [last_action |-> <<0, 0>>, base_pos |-> StartPos, goal_pos |-> SensorGoal(e),
     forces |-> << <<0, 0, 0, 0, 0, 0>>, <<0, 0, 0, 0, 0, 0>>,
                   <<0, 0, 0, 0, 0, 0>>, <<0, 0, 0, 0, 0, 0>> >>]

\* after the three constructors: nothing is bound
SensorInit ==
    /\ sensor_env = [s \in Sensors |-> NoEnv]
    /\ sensor_robot = [s \in Sensors |-> NoRobot]
    /\ senv = [e \in SensorEnvs |-> SensorFirstReading(e)]
    /\ sens_op = <<"init", "">>
    /\ sens_raised = NoError
    /\ sens_obs = NoObs

----------------------------------------------------------------------------
\* The experiment driver: module level (lines 19-21) and experiment()

MaxEnvNums == 3
MaxProcNums == 3
MaxUpdates == 2
EvalHorizon == 2000
EvalFrameExtract == 4
MinEvalParallel == 2

\* d[k] = v on a Python dict
DictSet(d, k, v) == [x \in DOMAIN d \cup {k} |-> IF x = k THEN v ELSE d[x]]

\* dict.copy(): a new dict with the same entries; nested dicts stay shared
ShallowCopy(d) == [k \in DOMAIN d |-> d[k]]

\* everything reachable from a top-level "env" entry, by value
Settings(h, top) ==
    [env |-> h[top["env"]], env_build |-> h[h[top["env"]]["env_build"]]]

\* EvalCount that passes the request through
EvalCountAsRequested(n) == n

\* max(2, n), the parallelism of the evaluation environment
EvalCount(n) == Max(MinEvalParallel, n)

NotBuilt == [env_nums |-> 0, proc_nums |-> 0, obs_normalizer |-> "None",
             settings |-> <<>>]

\* get_subprocvec_env(name, env_params, env_nums, proc_nums); the environment
\* owns a normalizer object when its settings ask for one
MakeEnv(settings, env_nums, proc_nums, norm) ==
    [env_nums |-> env_nums, proc_nums |-> proc_nums,
     obs_normalizer |-> IF settings.env["obs_norm"] THEN norm ELSE "None",
     settings |-> settings]

\* lines 30-47 on the dict eval_params["env"]["env_build"]
OverrideBuild(b0) ==
    LET b1 == DictSet(b0, "reset_frame_idx_each_step", TRUE)
        b2 == IF "get_image_interval" \in DOMAIN b1 /\ b1["get_image_interval"] > 1
              THEN DictSet(DictSet(b1, "frame_extract", b1["get_image_interval"]),
                           "get_image_interval", 1)
              ELSE IF /\ "get_image_interval" \in DOMAIN b1
                      /\ b1["get_image_interval"] = 1
                      /\ b1["frame_extract"] = 1
              THEN DictSet(b1, "frame_extract", EvalFrameExtract)
              ELSE b1
        b3 == IF "curriculum" \in DOMAIN b2
              THEN DictSet(b2, "curriculum", FALSE) ELSE b2
        b4 == IF "interpolation" \in DOMAIN b3
              THEN DictSet(b3, "interpolation", FALSE) ELSE b3
    IN  IF "fixed_delay_observation" \in DOMAIN b4
        THEN DictSet(b4, "fixed_delay_observation", FALSE) ELSE b4

\* line 28
BuildEnv ==
    /\ pc = "start"
    /\ train_env' = MakeEnv(Settings(heap, params), args.vec_env_nums,
                            args.proc_nums, "norm_train")
    /\ pc' = "env_built"
    /\ UNCHANGED <<args, params, eval_params, heap, eval_env, normalizer,
                   train_updates, logger_params, replay_buffer>>
    /\ UNCHANGED <<task_vars, env_vars, call_vars, probe, sensor_vars>>

\* lines 30-47
ApplyEvalOverrides ==
    /\ pc = "env_built"
    /\ LET e == eval_params["env"]
           b == heap[e]["env_build"]
       IN  heap' = [heap EXCEPT ![b] = OverrideBuild(heap[b]),
                                ![e] = DictSet(heap[e], "horizon", EvalHorizon)]
    /\ pc' = "overridden"
    /\ UNCHANGED <<args, params, eval_params, train_env, eval_env, normalizer,
                   train_updates, logger_params, replay_buffer>>
    /\ UNCHANGED <<task_vars, env_vars, call_vars, probe, sensor_vars>>

\* lines 49-54
BuildEvalEnv ==
    /\ pc = "overridden"
    /\ eval_env' = MakeEnv(Settings(heap, eval_params), EvalCount(args.vec_env_nums),
                           EvalCount(args.proc_nums), "norm_eval")
    /\ pc' = "eval_built"
    /\ UNCHANGED <<args, params, eval_params, heap, train_env, normalizer,
                   train_updates, logger_params, replay_buffer>>
    /\ UNCHANGED <<task_vars, env_vars, call_vars, probe, sensor_vars>>

\* lines 56-57: eval_env._obs_normalizer = env._obs_normalizer
ShareNormalizer ==
    /\ pc = "eval_built"
    /\ eval_env' = IF train_env.obs_normalizer # "None"
                   THEN [eval_env EXCEPT !.obs_normalizer = train_env.obs_normalizer]
                   ELSE eval_env
    /\ pc' = "shared"
    /\ UNCHANGED <<args, params, eval_params, heap, train_env, normalizer,
                   train_updates, logger_params, replay_buffer>>
    /\ UNCHANGED <<task_vars, env_vars, call_vars, probe, sensor_vars>>

\* line 73: Logger(..., params, ...)
MakeLogger ==
    /\ pc = "shared"
    /\ logger_params' = Settings(heap, params)
    /\ pc' = "logged"
    /\ UNCHANGED <<args, params, eval_params, heap, train_env, eval_env, normalizer,
                   train_updates, replay_buffer>>
    /\ UNCHANGED <<task_vars, env_vars, call_vars, probe, sensor_vars>>

\* lines 76-81
MakeReplayBuffer ==
    /\ pc = "logged"
    /\ replay_buffer' = [env_nums |-> args.vec_env_nums]
    /\ pc' = "train"
    /\ UNCHANGED <<args, params, eval_params, heap, train_env, eval_env, normalizer,
                   train_updates, logger_params>>
    /\ UNCHANGED <<task_vars, env_vars, call_vars, probe, sensor_vars>>

\* agent.train(): the training environment steps and feeds its normalizer
TrainStep ==
    /\ pc = "train"
    /\ train_env.obs_normalizer # "None"
    /\ normalizer[train_env.obs_normalizer] < MaxUpdates
    /\ normalizer' = [normalizer EXCEPT ![train_env.obs_normalizer] = @ + 1]
    /\ train_updates' = train_updates + 1
    /\ UNCHANGED <<pc, args, params, eval_params, heap, train_env, eval_env,
                   logger_params, replay_buffer>>
    /\ UNCHANGED <<task_vars, env_vars, call_vars, probe, sensor_vars>>

\* agent.train(): the evaluation environment steps and feeds the normalizer
\* it holds
EvalStep ==
    /\ pc = "train"
    /\ eval_env.obs_normalizer # "None"
    /\ normalizer[eval_env.obs_normalizer] < MaxUpdates
    /\ normalizer' = [normalizer EXCEPT ![eval_env.obs_normalizer] = @ + 1]
    /\ UNCHANGED <<pc, args, params, eval_params, heap, train_env, eval_env,
                   train_updates, logger_params, replay_buffer>>
    /\ UNCHANGED <<task_vars, env_vars, call_vars, probe, sensor_vars>>

\* the config file as get_params loads it
LoadedBuild(interval, extract, curriculum) ==
    LET base == [frame_extract |-> extract, interpolation |-> TRUE]
        b1 == IF interval = 0 THEN base
              ELSE DictSet(base, "get_image_interval", interval)
    IN  IF curriculum THEN DictSet(b1, "curriculum", TRUE) ELSE b1

\* module level: args, params = get_params(...), eval_params = params.copy()
ExpStart(vec, proc, interval, extract, curriculum, norm) ==
    /\ pc = "start"
    /\ args = [vec_env_nums |-> vec, proc_nums |-> proc]
    /\ params = [env_name |-> "A1GoalEnv", env |-> "env_dict"]
    /\ eval_params = ShallowCopy(params)
    /\ heap = [o \in {"env_dict", "build_dict"} |->
                 IF o = "env_dict"
                 THEN [horizon |-> 1000, obs_norm |-> norm, env_build |-> "build_dict"]
                 ELSE LoadedBuild(interval, extract, curriculum)]
    /\ train_env = NotBuilt
    /\ eval_env = NotBuilt
    /\ normalizer = [n \in {"norm_train", "norm_eval"} |-> 0]
    /\ train_updates = 0
    /\ logger_params = <<>>
    /\ replay_buffer = [env_nums |-> 0]

ExpInit ==
    \E vec \in 1..MaxEnvNums, proc \in 1..MaxProcNums, interval \in {0, 1, 4},
       extract \in {1, 2}, curriculum \in BOOLEAN, norm \in BOOLEAN :
        ExpStart(vec, proc, interval, extract, curriculum, norm)

ExpIdle == ExpStart(1, 1, 0, 1, FALSE, FALSE)

----------------------------------------------------------------------------
\* Specifications

\* after GoalTask(**c): nothing is bound; the robot stands at the start
TaskStart(c, terrain) ==
    /\ cfg = c
    /\ task_env = NoEnv
    /\ last_base_pos = <<>>
    /\ current_base_pos = <<>>
    /\ base_pos = StartPos
    /\ base_orn = Upright
    /\ contacts = <<>>
    /\ torques = <<0, 0, 0>>
    /\ has_terrain = terrain
    /\ subgoals_achieved = NoneAchieved
    /\ last_op = "init"
    /\ raised = NoError
    /\ ret_done = FALSE
    /\ ret_reward = 0
    /\ contrib = NoShares
    /\ bonus_count = NoShares

TaskInit == \E c \in Configs : TaskStart(c, TRUE)
TaskIdle == TaskStart(DefaultConfig, FALSE)

\* the task and the environment it is stepped in
Init == TaskInit /\ ProbeIdle /\ SensorInit /\ ExpIdle
Next ==
    \/ reset
    \/ update
    \/ done
    \/ reward
    \/ MoveBase
    \/ TurnBase
    \/ Touch
    \/ Actuate
    \/ EpisodeStart
Spec == Init /\ [][Next]_vars

\* termination: done() over every configuration and world
InitDone ==
    /\ \E c \in DoneConfigs, terrain \in BOOLEAN : TaskStart(c, terrain)
    /\ ProbeIdle /\ SensorInit /\ ExpIdle
NextDone ==
    \/ reset
    \/ update
    \/ done
    \/ MoveBase
    \/ TurnBase
    \/ Touch
SpecDone == InitDone /\ [][NextDone]_vars

\* the forward-velocity law
InitVel == TaskIdle /\ ProbeInit /\ SensorInit /\ ExpIdle
NextVel == ProbeSpeed
SpecVel == InitVel /\ [][NextVel]_vars

\* the sensors
InitSensor == TaskIdle /\ ProbeIdle /\ SensorInit /\ ExpIdle
NextSensor ==
    \/ on_reset
    \/ get_observation
    \/ set_robot
    \/ EnvStep
SpecSensor == InitSensor /\ [][NextSensor]_vars

\* the experiment driver
InitExp == TaskIdle /\ ProbeIdle /\ SensorInit /\ ExpInit
NextExp ==
    \/ BuildEnv
    \/ ApplyEvalOverrides
    \/ BuildEvalEnv
    \/ ShareNormalizer
    \/ MakeLogger
    \/ MakeReplayBuffer
    \/ TrainStep
    \/ EvalStep
SpecExp == InitExp /\ [][NextExp]_vars

----------------------------------------------------------------------------
\* Properties

\* C1 (Spec). Within one episode the +5 bonus of a subgoal is part of at most
\* one reward: a flag that is set stays set until the next episode, a reward
\* call pays the bonus of subgoal i exactly when it sets flag i, it pays
\* nothing for a subgoal whose flag is already set, and no subgoal is paid
\* twice.
C1_SubgoalBonusOnce ==
    [][\A i \in 1..NumSubgoals :
          /\ (subgoals_achieved[i] /\ last_op' # "episode") => subgoals_achieved'[i]
          /\ (last_op' = "reward" /\ raised' = NoError) =>
                /\ subgoals_achieved[i] => contrib'[i] = 0
                /\ contrib'[i] = SubgoalBonus <=>
                       (~subgoals_achieved[i] /\ subgoals_achieved'[i])
                /\ contrib'[i] \in {0, SubgoalBonus}
          /\ bonus_count'[i] <= 1]_vars

\* a second reward call made next to an achieved subgoal adds nothing for it
C1_Witness ==
    /\ last_op = "reward"
    /\ raised = NoError
    /\ cfg.subgoal
    /\ \E i \in 1..NumSubgoals :
           /\ SumSq(VSub(current_base_pos, subgoals[i])) < SubgoalRadius * SubgoalRadius
           /\ subgoals_achieved[i]
           /\ bonus_count[i] = 1
           /\ contrib[i] = 0

\* the parts of the termination condition, read off the state
TooLow == base_pos[3] < height_fall_coeff
TooHigh == cfg.z_constrain /\ base_pos[3] > ZUpper
\* 1 - 2 (x^2 + y^2) / |q|^2 < 0.6, cleared of the division
Tilted ==
    10 * SumSq(base_orn) - 20 * (base_orn[1] * base_orn[1] + base_orn[2] * base_orn[2])
        < 6 * SumSq(base_orn)
\* any contact other than a foot on the ground
IllegalContact ==
    \E i \in 1..Len(contacts) :
        contacts[i][1] # GroundId \/ contacts[i][2] \notin foot_link_ids
\* |current - last| / 0.1 s <= 0.05 m/s, in mm: |current - last|^2 <= 25
SlowInSpace == SumSq(VSub(current_base_pos, last_base_pos)) <= 25
\* the same for the horizontal part of the displacement alone
SlowOnTheGround ==
    SumSq(<<current_base_pos[1] - last_base_pos[1],
            current_base_pos[2] - last_base_pos[2]>>) <= 25

\* C2 (SpecDone), as amended. done returns true exactly when the base is
\* below the fall height, or z_constrain is set and the base is above 0.8,
\* or the body is tilted (rot_mat[-1] < 0.6), or check_contact is set and an
\* illegal contact comes with a speed of the base, taken over all three
\* axes, of at most 0.05.
C2_DoneExactly ==
    (last_op = "done" /\ raised = NoError) =>
        (ret_done <=>
            \/ TooLow
            \/ TooHigh
            \/ Tilted
            \/ (cfg.check_contact /\ IllegalContact /\ SlowInSpace))

\* an illegal contact while the base moves straight up: no horizontal speed,
\* yet the episode goes on
C2_Witness ==
    /\ last_op = "done"
    /\ raised = NoError
    /\ cfg.check_contact
    /\ IllegalContact
    /\ SlowOnTheGround
    /\ ~SlowInSpace
    /\ ~ret_done

\* C2 as stated: the height test has no upper limit and the speed is the
\* horizontal speed.
C2_AsStated ==
    (last_op = "done" /\ raised = NoError) =>
        (ret_done <=>
            \/ TooLow
            \/ Tilted
            \/ (cfg.check_contact /\ IllegalContact /\ SlowOnTheGround))

\* C3 (Spec), as stated: a reward call changes neither the task's fields nor
\* the environment's world.
C3_RewardHasNoSideEffect ==
    [][last_op' = "reward" => UNCHANGED <<task_vars, env_vars>>]_vars

\* C4 (Spec), as stated: reward called right after a successful update (so
\* after reset) does not raise, whatever the configuration.
C4_RewardNeverRaises ==
    [][(last_op = "update" /\ raised = NoError /\ last_op' = "reward")
          => raised' = NoError]_vars

\* C5 (SpecVel), as amended. With the vertical term held fixed, the forward
\* reward at a speed below target_vel is strictly smaller than at target_vel,
\* and at every speed at or above target_vel it equals the reward at
\* target_vel.
C5_ForwardRewardLaw ==
    /\ probe.xy_speed < probe.target_vel => probe.reward < probe.at_target
    /\ probe.xy_speed >= probe.target_vel => probe.reward = probe.at_target

\* a speed above the target earns what the target speed earns
C5_Witness ==
    /\ probe.xy_speed > probe.target_vel
    /\ probe.reward = probe.at_target
    /\ probe.reward = ForwardReward(probe.xy_speed, probe.z_speed,
                                    probe.target_vel, probe.z_penalty)

\* C5 as stated: every speed other than target_vel earns strictly less.
C5_AsStated ==
    probe.xy_speed # probe.target_vel => probe.reward < probe.at_target

\* C6 (Spec). reset leaves the robot's position in both fields; a successful
\* update moves current to last and reads the robot's position into current;
\* a failed update, done and reward leave both fields alone.
C6_PositionTracking ==
    [][/\ last_op' = "reset" =>
              (last_base_pos' = base_pos /\ current_base_pos' = base_pos)
       /\ (last_op' = "update" /\ raised' = NoError) =>
              (last_base_pos' = current_base_pos /\ current_base_pos' = base_pos)
       /\ (last_op' = "update" /\ raised' # NoError) =>
              UNCHANGED <<last_base_pos, current_base_pos>>
       /\ last_op' \in {"done", "reward"} =>
              UNCHANGED <<last_base_pos, current_base_pos>>]_vars

\* an update after the robot has moved: the two fields differ
C6_Witness ==
    /\ last_op = "update"
    /\ raised = NoError
    /\ current_base_pos = base_pos
    /\ last_base_pos # current_base_pos

\* C7 (SpecSensor), as stated: a pull fails with a binding error before
\* on_reset, and after on_reset it succeeds and returns what the bound
\* environment holds.
C7_SensorBinding ==
    \A s \in Sensors :
        sens_op = <<"_get_observation", s>> =>
            IF sensor_env[s] = NoEnv
            THEN sens_raised = "AttributeError"
            ELSE /\ sens_raised = NoError
                 /\ sens_obs = Observation(s, senv[sensor_env[s]])

\* C8 (SpecExp), as stated: the statistics the training environment sees
\* hold the training environment's updates and nothing else.
C8_EvalLeavesTrainingStatistics ==
    train_env.obs_normalizer # "None" =>
        normalizer[train_env.obs_normalizer] = train_updates

\* C9 (SpecExp). The evaluation environment is built with max(2, n)
\* instances and processes, the training environment and the replay buffer
\* with the requested numbers.
C9_EvalParallelism ==
    /\ pc # "start" =>
          /\ train_env.env_nums = args.vec_env_nums
          /\ train_env.proc_nums = args.proc_nums
    /\ pc \in {"eval_built", "shared", "logged", "train"} =>
          /\ eval_env.env_nums >= 2
          /\ eval_env.proc_nums >= 2
          /\ args.vec_env_nums >= 2 => eval_env.env_nums = args.vec_env_nums
          /\ args.vec_env_nums < 2 => eval_env.env_nums = 2
          /\ args.proc_nums >= 2 => eval_env.proc_nums = args.proc_nums
          /\ args.proc_nums < 2 => eval_env.proc_nums = 2
    /\ pc = "train" => replay_buffer.env_nums = args.vec_env_nums

\* one instance and one process requested: evaluation runs two of each
C9_Witness ==
    /\ pc = "train"
    /\ args.vec_env_nums = 1
    /\ args.proc_nums = 1
    /\ train_env.env_nums = 1
    /\ replay_buffer.env_nums = 1
    /\ eval_env.env_nums = 2
    /\ eval_env.proc_nums = 2

\* C10 (SpecExp), as stated: after the evaluation overrides, params["env"]
\* still holds what the training environment was built from, and that is
\* what the Logger receives.
C10_TrainingSettingsKept ==
    /\ pc \in {"overridden", "eval_built", "shared", "logged", "train"} =>
          Settings(heap, params) = train_env.settings
    /\ pc \in {"logged", "train"} => logger_params = train_env.settings

====
